---- MODULE Spec2Model ----
(***************************************************************************)
(* Model of AgentIndexer (src/core/indexer.ts): getAgent, searchAgents     *)
(* with its residual filter and over-fetch pagination, and                 *)
(* searchAgentsByReputation with its sort parsing and normalisation.       *)
(*                                                                         *)
(* Representation of JavaScript values:                                    *)
(*   string     a sequence of characters (one-character TLA+ strings; a    *)
(*              word that the code never looks inside is one element)      *)
(*   T?         an optional value: <<>> for undefined/null, <<v>> for v    *)
(*   number     [nan |-> BOOLEAN, v |-> Int]; NaN is [nan |-> TRUE, v |-> 0]*)
(***************************************************************************)
EXTENDS Integers, Sequences, FiniteSets, TLC

VARIABLES subgraphClient, source, native, op, args, srcCall, result, session

vars == <<subgraphClient, source, native, op, args, srcCall, result, session>>

(***************************************************************************)
(* Bounds of the model.                                                    *)
(***************************************************************************)
MaxSource == 3
MaxPageSize == 2
MaxFirst == 2
MaxSkip == 1

(***************************************************************************)
(* JavaScript values.                                                      *)
(***************************************************************************)
None == <<>>
Some(v) == <<v>>
IsSome(o) == Len(o) = 1
Val(o) == o[1]

Num(n) == [nan |-> FALSE, v |-> n]
NaN == [nan |-> TRUE, v |-> 0]
NumAdd(a, b) == IF a.nan \/ b.nan THEN NaN ELSE Num(a.v + b.v)

\* truthiness of an optional string: undefined and "" are falsy
TruthyStr(o) == IsSome(o) /\ Len(Val(o)) > 0
\* truthiness of an optional value that is an object or array when present
TruthyObj(o) == IsSome(o)

Min(a, b) == IF a < b THEN a ELSE b

Digits == {"0", "1", "2", "3", "4", "5", "6", "7", "8", "9"}
WhiteSpace == {" "}

DigitVal(c) ==
  CASE c = "0" -> 0 [] c = "1" -> 1 [] c = "2" -> 2 [] c = "3" -> 3
    [] c = "4" -> 4 [] c = "5" -> 5 [] c = "6" -> 6 [] c = "7" -> 7
    [] c = "8" -> 8 [] c = "9" -> 9

DigitChar(d) ==
  CASE d = 0 -> "0" [] d = 1 -> "1" [] d = 2 -> "2" [] d = 3 -> "3"
    [] d = 4 -> "4" [] d = 5 -> "5" [] d = 6 -> "6" [] d = 7 -> "7"
    [] d = 8 -> "8" [] d = 9 -> "9"

\* String.prototype.toLowerCase, character by character
LowerChar(c) ==
  CASE c = "A" -> "a" [] c = "B" -> "b" [] c = "O" -> "o" [] c = "P" -> "p"
    [] c = "W" -> "w" [] OTHER -> c

toLowerCase(s) == [i \in 1..Len(s) |-> LowerChar(s[i])]

\* String.prototype.includes: sub occurs in s as a contiguous substring
StrIncludes(s, sub) ==
  \E i \in 0..(Len(s) - Len(sub)) : SubSeq(s, i + 1, i + Len(sub)) = sub

\* Array.prototype.includes
ArrIncludes(a, x) == \E i \in 1..Len(a) : a[i] = x

\* Array.prototype.some with an includes test: some element of xs is in ys
SomeIncluded(xs, ys) == \E i \in 1..Len(xs) : ArrIncludes(ys, xs[i])

RECURSIVE SkipWhiteSpace(_)
SkipWhiteSpace(s) ==
  IF Len(s) > 0 /\ s[1] \in WhiteSpace THEN SkipWhiteSpace(Tail(s)) ELSE s

RECURSIVE DigitPrefixLen(_)
DigitPrefixLen(s) ==
  IF Len(s) > 0 /\ s[1] \in Digits THEN 1 + DigitPrefixLen(Tail(s)) ELSE 0

RECURSIVE DigitsValue(_)
DigitsValue(s) ==
  IF Len(s) = 0 THEN 0
  ELSE 10 * DigitsValue(SubSeq(s, 1, Len(s) - 1)) + DigitVal(s[Len(s)])

\* parseInt(s, 10): leading white space, an optional sign, then the longest
\* run of digits; NaN when there is no digit
parseInt(s) ==
  LET t == SkipWhiteSpace(s)
      signed == Len(t) > 0 /\ t[1] \in {"+", "-"}
      sign == IF Len(t) > 0 /\ t[1] = "-" THEN -1 ELSE 1
      body == IF signed THEN Tail(t) ELSE t
      n == DigitPrefixLen(body)
  IN IF n = 0 THEN NaN ELSE Num(sign * DigitsValue(SubSeq(body, 1, n)))

RECURSIVE NatToString(_)
NatToString(n) ==
  IF n < 10 THEN <<DigitChar(n)>>
  ELSE NatToString(n \div 10) \o <<DigitChar(n % 10)>>

\* String(x) for a number x
String(x) ==
  IF x.nan THEN <<"N", "a", "N">>
  ELSE IF x.v < 0 THEN <<"-">> \o NatToString(-x.v)
  ELSE NatToString(x.v)

(***************************************************************************)
(* normalizeAddress (utils/validation): one canonical form per address,    *)
(* independent of the casing of its input.                                 *)
(***************************************************************************)
normalizeAddress(a) == toLowerCase(a)

(***************************************************************************)
(* The store behind the Indexed Source: a sequence of entities, each of    *)
(* one of three kinds.  An entity is seen as an AgentSummary by getAgent   *)
(* and searchAgents and as a raw reputation record (with its nested        *)
(* registrationFile) by searchAgentsByReputation.  The entity at position  *)
(* i has agentId i.                                                        *)
(***************************************************************************)
Kinds == {1, 2, 3}

SummaryOf(k, i) ==
  CASE k = 1 ->
         [agentId |-> i, chainId |-> 1, name |-> Some(<<"A", "b">>),
          mcp |-> TRUE, a2a |-> FALSE,
          ens |-> Some(<<"a">>), did |-> Some(<<"did:1">>),
          walletAddress |-> Some(<<"w">>),
          supportedTrusts |-> Some(<<"reputation">>),
          a2aSkills |-> Some(<<"skill1">>), mcpTools |-> Some(<<"tool1">>),
          mcpPrompts |-> Some(<<"prompt1">>),
          mcpResources |-> Some(<<"res1">>),
          active |-> TRUE, x402support |-> FALSE]
    [] k = 2 ->
         [agentId |-> i, chainId |-> 2, name |-> None,
          mcp |-> FALSE, a2a |-> TRUE,
          ens |-> None, did |-> None, walletAddress |-> None,
          supportedTrusts |-> None, a2aSkills |-> Some(<<>>),
          mcpTools |-> Some(<<>>), mcpPrompts |-> None,
          mcpResources |-> Some(<<>>),
          active |-> FALSE, x402support |-> TRUE]
    [] k = 3 ->
         [agentId |-> i, chainId |-> 1, name |-> Some(<<"b">>),
          mcp |-> TRUE, a2a |-> TRUE,
          ens |-> Some(<<"b">>), did |-> Some(<<"did:2">>),
          walletAddress |-> Some(<<"p">>),
          supportedTrusts |-> Some(<<"reputation", "tee">>),
          a2aSkills |-> Some(<<"skill2">>), mcpTools |-> Some(<<"tool2">>),
          mcpPrompts |-> Some(<<"prompt2">>),
          mcpResources |-> Some(<<"res2">>),
          active |-> TRUE, x402support |-> TRUE]

NoParams ==
  [name |-> None, mcp |-> None, a2a |-> None, ens |-> None, did |-> None,
   walletAddress |-> None, supportedTrust |-> None, a2aSkills |-> None,
   mcpTools |-> None, mcpPrompts |-> None, mcpResources |-> None,
   active |-> None, x402support |-> None, chains |-> None]

\* the criteria objects the calls are made with
ParamsSet ==
  { NoParams,
    [NoParams EXCEPT !.name = Some(<<"B">>)],
    [NoParams EXCEPT !.name = Some(<<>>)],
    [NoParams EXCEPT !.mcp = Some(TRUE)],
    [NoParams EXCEPT !.a2a = Some(FALSE)],
    [NoParams EXCEPT !.ens = Some(<<"A">>)],
    [NoParams EXCEPT !.did = Some(<<"did:1">>)],
    [NoParams EXCEPT !.walletAddress = Some(<<"W">>)],
    [NoParams EXCEPT !.supportedTrust = Some(<<"tee", "crypto">>)],
    [NoParams EXCEPT !.supportedTrust = Some(<<>>)],
    [NoParams EXCEPT !.a2aSkills = Some(<<"skill1">>)],
    [NoParams EXCEPT !.mcpTools = Some(<<"tool2">>)],
    [NoParams EXCEPT !.mcpPrompts = Some(<<"prompt1">>)],
    [NoParams EXCEPT !.mcpResources = Some(<<"res1", "res2">>)],
    [NoParams EXCEPT !.active = Some(TRUE)],
    [NoParams EXCEPT !.x402support = Some(FALSE)],
    [NoParams EXCEPT !.chains = Some(<<1>>)] }

(***************************************************************************)
(* _filterAgents: the residual filter, one test per criterion.             *)
(***************************************************************************)
OrEmpty(o) == IF TruthyObj(o) THEN Val(o) ELSE <<>>

nameRejects(agent, name) ==
  TruthyStr(name)
    /\ ~(IsSome(agent.name)
          /\ StrIncludes(toLowerCase(Val(agent.name)), toLowerCase(Val(name))))

boolRejects(agentValue, criterion) ==
  IsSome(criterion) /\ agentValue # Val(criterion)

addressRejects(agentValue, criterion) ==
  TruthyStr(criterion) /\ TruthyStr(agentValue)
    /\ normalizeAddress(Val(agentValue)) # normalizeAddress(Val(criterion))

didRejects(agent, did) == TruthyStr(did) /\ agent.did # did

listRejects(agentList, criterion) ==
  TruthyObj(criterion) /\ Len(Val(criterion)) > 0
    /\ ~SomeIncluded(Val(criterion), OrEmpty(agentList))

chainsRejects(agent, chains) ==
  TruthyObj(chains) /\ Len(Val(chains)) > 0
    /\ ~ArrIncludes(Val(chains), agent.chainId)

filterPredicate(agent, params) ==
  /\ ~nameRejects(agent, params.name)
  /\ ~boolRejects(agent.mcp, params.mcp)
  /\ ~boolRejects(agent.a2a, params.a2a)
  /\ ~addressRejects(agent.ens, params.ens)
  /\ ~didRejects(agent, params.did)
  /\ ~addressRejects(agent.walletAddress, params.walletAddress)
  /\ ~listRejects(agent.supportedTrusts, params.supportedTrust)
  /\ ~listRejects(agent.a2aSkills, params.a2aSkills)
  /\ ~listRejects(agent.mcpTools, params.mcpTools)
  /\ ~listRejects(agent.mcpPrompts, params.mcpPrompts)
  /\ ~listRejects(agent.mcpResources, params.mcpResources)
  /\ ~boolRejects(agent.active, params.active)
  /\ ~boolRejects(agent.x402support, params.x402support)
  /\ ~chainsRejects(agent, params.chains)

filterAgents(agents, params) ==
  LET Keep(agent) == filterPredicate(agent, params)
  IN SelectSeq(agents, Keep)

(***************************************************************************)
(* The Indexed Source (SubgraphClient), from its interface: a stable       *)
(* result order, a window of at most `limit` records starting at a         *)
(* non-negative integer offset.  When `native` holds the source evaluates  *)
(* the criteria itself, by the match rules of the residual-filter table;   *)
(* otherwise it ignores them.                                              *)
(***************************************************************************)
addressMatches(agentValue, criterion) ==
  TruthyStr(criterion) =>
    /\ IsSome(agentValue)
    /\ normalizeAddress(Val(agentValue)) = normalizeAddress(Val(criterion))

tableMatch(agent, params) ==
  /\ ~nameRejects(agent, params.name)
  /\ ~boolRejects(agent.mcp, params.mcp)
  /\ ~boolRejects(agent.a2a, params.a2a)
  /\ addressMatches(agent.ens, params.ens)
  /\ ~didRejects(agent, params.did)
  /\ addressMatches(agent.walletAddress, params.walletAddress)
  /\ ~listRejects(agent.supportedTrusts, params.supportedTrust)
  /\ ~listRejects(agent.a2aSkills, params.a2aSkills)
  /\ ~listRejects(agent.mcpTools, params.mcpTools)
  /\ ~listRejects(agent.mcpPrompts, params.mcpPrompts)
  /\ ~listRejects(agent.mcpResources, params.mcpResources)
  /\ ~boolRejects(agent.active, params.active)
  /\ ~boolRejects(agent.x402support, params.x402support)
  /\ ~chainsRejects(agent, params.chains)

Window(s, offset, limit) == SubSeq(s, offset + 1, Min(Len(s), offset + limit))

sourceSummaries == [i \in 1..Len(source) |-> SummaryOf(source[i], i)]

\* the source's result order for a criteria object
sourceOrder(params) ==
  LET Native(agent) == tableMatch(agent, params)
  IN IF native THEN SelectSeq(sourceSummaries, Native) ELSE sourceSummaries

\* an offset that is no non-negative integer is refused by the source
sourceRefuses(offset) == offset.nan \/ offset.v < 0

sourceSearchAgents(params, limit, offset) ==
  Window(sourceOrder(params), offset, limit)

sourceGetAgentById(agentId) ==
  IF agentId \in 1..Len(source)
  THEN Some(SummaryOf(source[agentId], agentId)) ELSE None

(***************************************************************************)
(* Errors: the message of the thrown Error, the agent id it names (0 when  *)
(* it names none) and the message of the failure it wraps ("" for none).   *)
(***************************************************************************)
Err(msg, id, cause) == [msg |-> msg, id |-> id, cause |-> cause]
NoError == Err("", 0, "")
sourceError == Err("source failure", 0, "")

agentNotFound(agentId) ==
  Err("Agent ${agentId} not found. Subgraph required for querying.", agentId, "")
searchRequiresClient == Err("Subgraph client required for agent search", 0, "")

(***************************************************************************)
(* Observation of a call: its arguments, what it passed to the source and  *)
(* what the source answered, and its outcome.                              *)
(***************************************************************************)
NoArgs ==
  [agentId |-> 0, params |-> NoParams, pageSize |-> 0, cursor |-> None,
   first |-> 0, skip |-> 0, sort |-> None, includeRevoked |-> FALSE]

NoCall ==
  [called |-> FALSE, method |-> "", limit |-> 0, offset |-> Num(0),
   orderBy |-> <<>>, orderDirection |-> <<>>, includeRevoked |-> FALSE,
   failed |-> FALSE, response |-> <<>>]

NoResult ==
  [status |-> "none", error |-> NoError, agent |-> None, items |-> <<>>,
   nextCursor |-> None]

Thrown(e) == [NoResult EXCEPT !.status = "error", !.error = e]

NoSession ==
  [fromStart |-> FALSE, returned |-> <<>>, prevValid |-> FALSE,
   prevOffset |-> 0, prevItems |-> <<>>]

(***************************************************************************)
(* getAgent                                                                *)
(***************************************************************************)
getAgentResult(agentId, fails) ==
  IF subgraphClient /\ fails THEN Thrown(sourceError)
  ELSE IF subgraphClient /\ IsSome(sourceGetAgentById(agentId))
  THEN [NoResult EXCEPT !.status = "ok", !.agent = sourceGetAgentById(agentId)]
  ELSE Thrown(agentNotFound(agentId))

GetAgent(agentId, fails) ==
  /\ op = "none"
  /\ op' = "getAgent"
  /\ args' = [NoArgs EXCEPT !.agentId = agentId]
  /\ srcCall' = IF subgraphClient
                THEN [NoCall EXCEPT !.called = TRUE, !.method = "getAgentById",
                                    !.failed = fails]
                ELSE NoCall
  /\ result' = getAgentResult(agentId, fails)
  /\ session' = NoSession
  /\ UNCHANGED <<subgraphClient, source, native>>

(***************************************************************************)
(* searchAgents                                                            *)
(***************************************************************************)
\* params: SearchParams = {} and const searchParams = params || {}
paramsOrEmpty(params) == IF IsSome(params) THEN Val(params) ELSE NoParams

\* pageSize: number = 50
defaultPageSize == 50
pageSizeOrDefault(pageSize) ==
  IF IsSome(pageSize) THEN Val(pageSize) ELSE defaultPageSize

\* const skip = cursor ? parseInt(cursor, 10) : 0
decodeCursor(cursor) == IF TruthyStr(cursor) THEN parseInt(Val(cursor)) ELSE Num(0)

\* a fetch without the extra record
fetchLimitExact(pageSize) == pageSize

\* the number of records requested from the source
fetchLimit(pageSize) == pageSize + 1

\* a next page is announced for a full page already
hasMoreInclusive(agents, pageSize) == Len(agents) >= pageSize

hasMore(agents, pageSize) == Len(agents) > pageSize

\* the page is not cut to the page size
paginatedAgentsUncut(agents, pageSize) == agents

paginatedAgents(agents, pageSize) ==
  IF hasMore(agents, pageSize) THEN SubSeq(agents, 1, pageSize) ELSE agents

\* the cursor steps over the extra record
nextCursorPastExtra(agents, skip, pageSize) ==
  IF Len(agents) > pageSize
  THEN Some(String(NumAdd(skip, Num(pageSize + 1))))
  ELSE None

nextCursor(agents, skip, pageSize) ==
  IF hasMore(agents, pageSize) THEN Some(String(NumAdd(skip, Num(pageSize))))
  ELSE None

searchSourceFails(cursor, fails) == fails \/ sourceRefuses(decodeCursor(cursor))

searchSourceCall(params, pageSize, cursor, fails) ==
  LET skip == decodeCursor(cursor)
  IN [NoCall EXCEPT
        !.called = TRUE, !.method = "searchAgents",
        !.limit = fetchLimit(pageSize), !.offset = skip,
        !.failed = searchSourceFails(cursor, fails),
        !.response = IF searchSourceFails(cursor, fails) THEN <<>>
                     ELSE sourceSearchAgents(params, fetchLimit(pageSize), skip.v)]

searchAgentsResult(params, pageSize, cursor, fails) ==
  IF ~subgraphClient THEN Thrown(searchRequiresClient)
  ELSE IF searchSourceFails(cursor, fails) THEN Thrown(sourceError)
  ELSE
    LET skip == decodeCursor(cursor)
        fetched == searchSourceCall(params, pageSize, cursor, fails).response
        agents == filterAgents(fetched, params)
    IN [NoResult EXCEPT
          !.status = "ok",
          !.items = paginatedAgents(agents, pageSize),
          !.nextCursor = nextCursor(agents, skip, pageSize)]

\* the call follows the cursor of the page just returned
Follows(params, pageSize, cursor) ==
  /\ op = "searchAgents"
  /\ result.status = "ok"
  /\ IsSome(result.nextCursor)
  /\ params = args.params
  /\ pageSize = args.pageSize
  /\ cursor = result.nextCursor

searchSession(params, pageSize, cursor, fails) ==
  LET res == searchAgentsResult(params, pageSize, cursor, fails)
      follows == Follows(params, pageSize, cursor)
  IN IF res.status # "ok" THEN NoSession
     ELSE [fromStart |-> IF follows THEN session.fromStart ELSE ~IsSome(cursor),
           returned |-> IF follows THEN session.returned \o res.items
                        ELSE res.items,
           prevValid |-> follows,
           prevOffset |-> IF follows THEN srcCall.offset.v ELSE 0,
           prevItems |-> IF follows THEN result.items ELSE <<>>]

SearchAgents(paramsArg, pageSizeArg, cursor, fails) ==
  LET params == paramsOrEmpty(paramsArg)
      pageSize == pageSizeOrDefault(pageSizeArg)
  IN /\ op = "none" \/ Follows(params, pageSize, cursor)
     /\ op' = "searchAgents"
     /\ args' = [NoArgs EXCEPT !.params = params, !.pageSize = pageSize,
                               !.cursor = cursor]
     /\ srcCall' = IF subgraphClient
                   THEN searchSourceCall(params, pageSize, cursor, fails)
                   ELSE NoCall
     /\ result' = searchAgentsResult(params, pageSize, cursor, fails)
     /\ session' = searchSession(params, pageSize, cursor, fails)
     /\ UNCHANGED <<subgraphClient, source, native>>


(***************************************************************************)
(* searchAgentsByReputation                                                *)
(***************************************************************************)
NoRegistrationFile ==
  [name |-> None, image |-> None, description |-> None,
   mcpEndpoint |-> None, a2aEndpoint |-> None, ens |-> None, did |-> None,
   agentWallet |-> None, supportedTrusts |-> None, a2aSkills |-> None,
   mcpTools |-> None, mcpPrompts |-> None, mcpResources |-> None,
   active |-> None, x402support |-> None]

\* the raw record of the entity of kind k at position i
RecordOf(k, i) ==
  CASE k = 1 ->
         [id |-> Some(NatToString(i)), chainId |-> Some(<<"1">>),
          owner |-> Some(<<"O", "w">>),
          operators |-> Some(<< <<"P">>, <<"o">> >>),
          averageScore |-> Some(90),
          registrationFile |-> Some(
            [NoRegistrationFile EXCEPT
               !.name = Some(<<"A", "b">>), !.image = Some(<<"img">>),
               !.description = Some(<<"text">>),
               !.mcpEndpoint = Some(<<"url">>),
               !.ens = Some(<<"A">>), !.did = Some(<<"did:1">>),
               !.agentWallet = Some(<<"W">>),
               !.supportedTrusts = Some(<<"reputation">>),
               !.a2aSkills = Some(<<"skill1">>),
               !.mcpTools = Some(<<"tool1">>),
               !.mcpPrompts = Some(<<"prompt1">>),
               !.mcpResources = Some(<<"res1">>),
               !.active = Some(TRUE)])]
    [] k = 2 ->
         [id |-> None, chainId |-> None, owner |-> None, operators |-> None,
          averageScore |-> None, registrationFile |-> None]
    [] k = 3 ->
         [id |-> Some(NatToString(i)), chainId |-> Some(<<"1">>),
          owner |-> Some(<<"p">>), operators |-> Some(<<>>),
          averageScore |-> Some(0),
          registrationFile |-> Some(
            [NoRegistrationFile EXCEPT
               !.name = Some(<<"b">>), !.image = Some(<<>>),
               !.a2aEndpoint = Some(<<"url">>), !.mcpEndpoint = Some(<<>>),
               !.ens = Some(<<"b">>), !.agentWallet = Some(<<"P">>),
               !.supportedTrusts = Some(<<"reputation", "tee">>),
               !.active = Some(FALSE), !.x402support = Some(TRUE)])]

sourceRecords == [i \in 1..Len(source) |-> RecordOf(source[i], i)]

sourceSearchAgentsByReputation(first, skip) == Window(sourceRecords, skip, first)

reputationRequiresClient ==
  Err("Subgraph client required for reputation search", 0, "")
reputationFailed(cause) ==
  Err("Failed to search agents by reputation: ${error}", 0, cause.msg)

\* String.prototype.split(':'): the parts between the separators
RECURSIVE split(_)
split(s) ==
  IF \E i \in 1..Len(s) : s[i] = ":"
  THEN LET i == CHOOSE j \in 1..Len(s) :
                  s[j] = ":" /\ \A h \in 1..(j - 1) : s[h] # ":"
       IN <<SubSeq(s, 1, i - 1)>> \o split(SubSeq(s, i + 1, Len(s)))
  ELSE <<s>>

createdAt == <<"createdAt">>
desc == <<"desc">>
asc == <<"asc">>

\* sort: string[] = ['createdAt:desc']
defaultSort == << <<"createdAt", ":", "desc">> >>
sortOrDefault(sort) == IF IsSome(sort) THEN Val(sort) ELSE defaultSort

\* a || b for strings a and b
OrStr(a, b) == IF Len(a) > 0 THEN a ELSE b

orderBy(sort) ==
  LET list == sortOrDefault(sort)
  IN IF Len(list) > 0 THEN OrStr(split(list[1])[1], createdAt) ELSE createdAt

orderDirection(sort) ==
  LET list == sortOrDefault(sort)
      sortField == IF Len(list) > 0 THEN split(list[1]) ELSE <<>>
  IN IF Len(sortField) > 1 THEN OrStr(sortField[2], desc) ELSE desc

\* regFile?.field
Field(regFile, f) == IF IsSome(regFile) THEN Val(regFile)[f] ELSE None

StrOr(o, d) == IF TruthyStr(o) THEN Val(o) ELSE d
StrOrUndefined(o) == IF TruthyStr(o) THEN o ELSE None

toAgentSummary(agent) ==
  LET regFile == agent.registrationFile
  IN [chainId |-> parseInt(StrOr(agent.chainId, <<"0">>)),
      agentId |-> StrOr(agent.id, <<>>),
      name |-> StrOr(Field(regFile, "name"), <<>>),
      image |-> StrOrUndefined(Field(regFile, "image")),
      description |-> StrOr(Field(regFile, "description"), <<>>),
      owners |-> IF TruthyStr(agent.owner)
                 THEN <<normalizeAddress(Val(agent.owner))>> ELSE <<>>,
      operators |-> [i \in 1..Len(OrEmpty(agent.operators)) |->
                       normalizeAddress(OrEmpty(agent.operators)[i])],
      mcp |-> TruthyStr(Field(regFile, "mcpEndpoint")),
      a2a |-> TruthyStr(Field(regFile, "a2aEndpoint")),
      ens |-> StrOrUndefined(Field(regFile, "ens")),
      did |-> StrOrUndefined(Field(regFile, "did")),
      walletAddress |-> IF TruthyStr(Field(regFile, "agentWallet"))
                        THEN Some(normalizeAddress(Val(Field(regFile, "agentWallet"))))
                        ELSE None,
      supportedTrusts |-> OrEmpty(Field(regFile, "supportedTrusts")),
      a2aSkills |-> OrEmpty(Field(regFile, "a2aSkills")),
      mcpTools |-> OrEmpty(Field(regFile, "mcpTools")),
      mcpPrompts |-> OrEmpty(Field(regFile, "mcpPrompts")),
      mcpResources |-> OrEmpty(Field(regFile, "mcpResources")),
      active |-> IF IsSome(Field(regFile, "active"))
                 THEN Val(Field(regFile, "active")) ELSE FALSE,
      x402support |-> IF IsSome(Field(regFile, "x402support"))
                      THEN Val(Field(regFile, "x402support")) ELSE FALSE,
      extras |-> [averageScore |-> agent.averageScore]]

reputationItems(agentsData) ==
  [i \in 1..Len(agentsData) |-> toAgentSummary(agentsData[i])]

\* a cursor for every page that is not empty
reputationNextCursorNonEmpty(items, first, skip) ==
  IF Len(items) > 0 THEN Some(String(Num(skip + Len(items)))) ELSE None

reputationNextCursor(items, first, skip) ==
  IF Len(items) = first THEN Some(String(Num(skip + Len(items)))) ELSE None

reputationSourceCall(first, skip, sort, includeRevoked, fails) ==
  [NoCall EXCEPT
     !.called = TRUE, !.method = "searchAgentsByReputation",
     !.limit = first, !.offset = Num(skip),
     !.orderBy = orderBy(sort), !.orderDirection = orderDirection(sort),
     !.includeRevoked = includeRevoked, !.failed = fails,
     !.response = IF fails THEN <<>>
                  ELSE sourceSearchAgentsByReputation(first, skip)]

searchAgentsByReputationResult(first, skip, sort, includeRevoked, fails) ==
  IF ~subgraphClient THEN Thrown(reputationRequiresClient)
  ELSE IF fails THEN Thrown(reputationFailed(sourceError))
  ELSE
    LET agentsData ==
          reputationSourceCall(first, skip, sort, includeRevoked, fails).response
        items == reputationItems(agentsData)
    IN [NoResult EXCEPT
          !.status = "ok",
          !.items = items,
          !.nextCursor = reputationNextCursor(items, first, skip)]

\* includeRevoked: boolean = false, first: number = 50, skip: number = 0
defaultFirst == 50
defaultSkip == 0
firstOrDefault(first) == IF IsSome(first) THEN Val(first) ELSE defaultFirst
skipOrDefault(skip) == IF IsSome(skip) THEN Val(skip) ELSE defaultSkip
includeRevokedOrDefault(includeRevoked) ==
  IF IsSome(includeRevoked) THEN Val(includeRevoked) ELSE FALSE

SearchAgentsByReputation(firstArg, skipArg, sort, includeRevokedArg, fails) ==
  LET first == firstOrDefault(firstArg)
      skip == skipOrDefault(skipArg)
      includeRevoked == includeRevokedOrDefault(includeRevokedArg)
  IN /\ op = "none"
     /\ op' = "searchAgentsByReputation"
     /\ args' = [NoArgs EXCEPT !.first = first, !.skip = skip, !.sort = sort,
                               !.includeRevoked = includeRevoked]
     /\ srcCall' = IF subgraphClient
                   THEN reputationSourceCall(first, skip, sort,
                                             includeRevoked, fails)
                   ELSE NoCall
     /\ result' = searchAgentsByReputationResult(first, skip, sort,
                                                 includeRevoked, fails)
     /\ session' = NoSession
     /\ UNCHANGED <<subgraphClient, source, native>>

\* an argument left out, or one of the values
Optional(S) == {None} \cup {Some(v) : v \in S}

Firsts == Optional(0..MaxFirst)

Skips == Optional(0..MaxSkip)

Sorts ==
  { None, Some(<<>>),
    Some(<< <<"score", ":", "asc">> >>),
    Some(<< <<"score", ":", "desc">> >>),
    Some(<< <<"score">> >>),
    Some(<< <<"score", ":">> >>),
    Some(<< <<":", "asc">> >>),
    Some(<< <<":">> >>),
    Some(<< <<>> >>),
    Some(<< <<"score", ":", "up">> >>),
    Some(<< <<"score", ":", "asc", ":", "x">> >>),
    Some(<< <<"name", ":", "asc">>, <<"score", ":", "desc">> >>) }

(***************************************************************************)
(* Inputs.                                                                 *)
(***************************************************************************)
Sources == UNION {[1..n -> Kinds] : n \in 0..MaxSource}

AgentIds == 1..(MaxSource + 1)

PageSizes == Optional(0..MaxPageSize)

Cursors ==
  { None, Some(<<>>), Some(<<"1">>), Some(<<" ", "2">>),
    Some(<<"1", "a">>), Some(<<"a">>), Some(<<"-", "1">>) }

(***************************************************************************)
(* The engine is constructed with or without a SubgraphClient and holds no *)
(* other state; a behaviour is one call, followed for searchAgents by the  *)
(* calls that follow its cursor.                                           *)
(***************************************************************************)
Init ==
  /\ subgraphClient \in BOOLEAN
  /\ source \in Sources
  /\ native \in BOOLEAN
  /\ ~subgraphClient => (source = <<>> /\ native = FALSE)
  /\ op = "none"
  /\ args = NoArgs
  /\ srcCall = NoCall
  /\ result = NoResult
  /\ session = NoSession

Next ==
  \/ \E agentId \in AgentIds, fails \in BOOLEAN : GetAgent(agentId, fails)
  \/ /\ op = "none"
     /\ \E params \in Optional(ParamsSet), pageSize \in PageSizes,
           cursor \in Cursors, fails \in BOOLEAN :
          SearchAgents(params, pageSize, cursor, fails)
  \/ /\ op = "searchAgents"
     /\ \E fails \in BOOLEAN :
          SearchAgents(Some(args.params), Some(args.pageSize),
                       result.nextCursor, fails)
  \/ \E first \in Firsts, skip \in Skips, sort \in Sorts, fails \in BOOLEAN :
       SearchAgentsByReputation(first, skip, sort, None, fails)

Spec == Init /\ [][Next]_vars

(***************************************************************************)
(* Vocabulary of the properties.                                           *)
(***************************************************************************)
SearchReturned == op = "searchAgents" /\ result.status = "ok"
ReputationReturned == op = "searchAgentsByReputation" /\ result.status = "ok"

AllDigits(c) == Len(c) > 0 /\ \A i \in 1..Len(c) : c[i] \in Digits

RECURSIVE Pow10(_)
Pow10(n) == IF n = 0 THEN 1 ELSE 10 * Pow10(n - 1)

RECURSIVE PlaceSum(_, _)
PlaceSum(c, i) ==
  IF i > Len(c) THEN 0
  ELSE DigitVal(c[i]) * Pow10(Len(c) - i) + PlaceSum(c, i + 1)

\* c is the decimal string of the non-negative integer n
IsDecimalOf(c, n) ==
  /\ n >= 0
  /\ AllDigits(c)
  /\ (Len(c) > 1 => c[1] # "0")
  /\ PlaceSum(c, 1) = n

IsPrefix(s, t) == Len(s) <= Len(t) /\ SubSeq(t, 1, Len(s)) = s

Ids(items) == [i \in 1..Len(items) |-> items[i].agentId]

NoDuplicates(s) == \A i, j \in 1..Len(s) : s[i] = s[j] => i = j

\* the records of the last response that pass the residual filter
Filtered == filterAgents(srcCall.response, args.params)

\* C1: with a configured source, the source is asked for pageSize + 1
\* records at the decoded offset; with F the records of its answer that pass
\* the residual filter, in order: if F has more than pageSize records the
\* items are the first pageSize records of F and nextCursor is the decimal
\* string of offset + pageSize, otherwise the items are F and there is no
\* nextCursor.
C1_PaginationDecision ==
  SearchReturned =>
    /\ srcCall.called /\ srcCall.limit = args.pageSize + 1
    /\ ~IsSome(args.cursor) => srcCall.offset = Num(0)
    /\ (TruthyStr(args.cursor) /\ AllDigits(Val(args.cursor))) =>
         srcCall.offset = Num(PlaceSum(Val(args.cursor), 1))
    /\ IF Len(Filtered) > args.pageSize
       THEN /\ result.items = SubSeq(Filtered, 1, args.pageSize)
            /\ IsSome(result.nextCursor)
            /\ IsDecimalOf(Val(result.nextCursor),
                           srcCall.offset.v + args.pageSize)
       ELSE /\ result.items = Filtered
            /\ result.nextCursor = None

C1_Witness ==
  /\ SearchReturned
  /\ args.pageSize >= 1
  /\ srcCall.offset.v >= 1
  /\ Len(Filtered) > args.pageSize
  /\ Len(result.items) = args.pageSize
  /\ IsSome(result.nextCursor)

\* the matching records of the source's result order from offset o onward
MatchingFrom(o) ==
  LET order == sourceOrder(args.params)
  IN filterAgents(SubSeq(order, o + 1, Len(order)), args.params)

\* C2: when a call follows the nextCursor c of the previous page (same
\* params, same page size, unchanged source), it fetches from offset c, which
\* is the previous offset plus the page size, and the two pages together are
\* an initial part of the matching records from the previous offset onward:
\* no record twice, no matching record in between left out.
C2_CursorRoundTrip ==
  (SearchReturned /\ session.prevValid) =>
    /\ IsDecimalOf(Val(args.cursor), srcCall.offset.v)
    /\ srcCall.offset.v = session.prevOffset + args.pageSize
    /\ IsPrefix(session.prevItems \o result.items,
                MatchingFrom(session.prevOffset))
    /\ NoDuplicates(Ids(session.prevItems \o result.items))

C2_Witness ==
  /\ SearchReturned
  /\ session.prevValid
  /\ Len(session.prevItems) >= 1
  /\ Len(result.items) >= 1
  /\ ~native

\* C3: every returned item satisfies the match rule of every criterion that
\* is present; for ens and walletAddress an absent agent value is a non-match.
C3_ResidualFilter ==
  SearchReturned =>
    \A i \in 1..Len(result.items) : tableMatch(result.items[i], args.params)

\* a cursor that is present and is not the decimal encoding of a
\* non-negative integer
Malformed(cursor) == TruthyStr(cursor) /\ ~AllDigits(Val(cursor))

\* C4: with a configured source, a call whose cursor is malformed fails
\* before it reaches the source: no offset is passed on and no page is
\* returned.
C4_InvalidCursorFails ==
  (op = "searchAgents" /\ subgraphClient /\ Malformed(args.cursor)) =>
    /\ result.status = "error"
    /\ ~srcCall.called

\* the failure getAgent raises when a configured source reports the id absent
NotFoundError(agentId) == agentNotFound(agentId)

\* C5: without a source every operation fails before any other work, and
\* the failure of getAgent is not the not-found failure of the same id.
C5_ConfigurationError ==
  (~subgraphClient /\ op # "none") =>
    /\ result.status = "error"
    /\ ~srcCall.called
    /\ op = "getAgent" => result.error # NotFoundError(args.agentId)

C7_ReputationCursor ==
  ReputationReturned =>
    /\ IsSome(result.nextCursor) <=> Len(result.items) = args.first
    /\ IsSome(result.nextCursor) =>
         IsDecimalOf(Val(result.nextCursor), args.skip + Len(result.items))

C7_Witness ==
  /\ ReputationReturned
  /\ args.first >= 1
  /\ args.skip >= 1
  /\ Len(result.items) = args.first
  /\ IsSome(result.nextCursor)

\* the text of s before its first ':' and the text between its first ':' and
\* the next one
BeforeColon(s) ==
  IF \E i \in 1..Len(s) : s[i] = ":"
  THEN SubSeq(s, 1, (CHOOSE i \in 1..Len(s) :
                       s[i] = ":" /\ \A h \in 1..(i - 1) : s[h] # ":") - 1)
  ELSE s

AfterColon(s) ==
  IF \E i \in 1..Len(s) : s[i] = ":"
  THEN BeforeColon(SubSeq(s, Len(BeforeColon(s)) + 2, Len(s)))
  ELSE <<>>

\* C8: the order passed to the source comes from the first sort entry:
\* orderBy is the part before ':' or createdAt when it is empty or there is
\* no entry, orderDirection is asc or desc, and desc when the part after ':'
\* is empty or missing.
C8_SortParsing ==
  (op = "searchAgentsByReputation" /\ srcCall.called) =>
    LET list == sortOrDefault(args.sort)
        before == IF Len(list) > 0 THEN BeforeColon(list[1]) ELSE <<>>
        after == IF Len(list) > 0 THEN AfterColon(list[1]) ELSE <<>>
    IN /\ srcCall.orderBy = IF Len(before) > 0 THEN before ELSE createdAt
       /\ srcCall.orderDirection \in {asc, desc}
       /\ Len(after) = 0 => srcCall.orderDirection = desc

\* C9: every address-like field of a returned summary is the normalised
\* form of the value the source supplied.
C9_Normalization ==
  ReputationReturned =>
    \A i \in 1..Len(result.items) :
      LET item == result.items[i]
          raw == srcCall.response[i]
          regFile == raw.registrationFile
      IN /\ IsSome(item.ens) =>
              Val(item.ens) = normalizeAddress(Val(Field(regFile, "ens")))
         /\ IsSome(item.walletAddress) =>
              Val(item.walletAddress)
                = normalizeAddress(Val(Field(regFile, "agentWallet")))
         /\ \A j \in 1..Len(item.owners) :
              item.owners[j] = normalizeAddress(Val(raw.owner))
         /\ \A j \in 1..Len(item.operators) :
              item.operators[j] = normalizeAddress(Val(raw.operators)[j])

\* a caller that started without a cursor and followed every nextCursor has
\* reached a page without nextCursor
SessionEnded ==
  SearchReturned /\ session.fromStart /\ ~IsSome(result.nextCursor)

\* the record at position i of the source's result order matches the
\* criteria and was returned on no page of the session
Unreturned(i) ==
  LET agent == sourceOrder(args.params)[i]
  IN /\ filterPredicate(agent, args.params)
     /\ ~ArrIncludes(Ids(session.returned), agent.agentId)

\* C10: an absent nextCursor says only that no matching record is left
\* within the fetched window: every matching record not returned lies beyond
\* offset + pageSize + 1 (and such records exist: C10_Witness).
C10_OnlyWindowExhausted ==
  SessionEnded =>
    \A i \in 1..Len(sourceOrder(args.params)) :
      Unreturned(i) => i > srcCall.offset.v + args.pageSize + 1

C10_Witness ==
  /\ SessionEnded
  /\ Len(result.items) < args.pageSize
  /\ \E i \in 1..Len(sourceOrder(args.params)) : Unreturned(i)

====
